---- MODULE Spec2Model ----
(***************************************************************************)
(* Reconciliation of HdfsCluster objects (hdfs-operator) and of            *)
(* ZookeeperCluster objects (zookeeper-operator) against a Kubernetes      *)
(* object store.  Strings are kept as strings: every format!() of the      *)
(* source is a concatenation here.                                         *)
(***************************************************************************)
EXTENDS Integers, Sequences, FiniteSets, TLC

\* ------------------------------------------------------------------ bounds
\* disturbances the environment may cause in one behaviour: transport
\* failures, edits of managed resources by other actors, spec changes
MaxEvents == 1
MaxRuns == MaxEvents + 1

\* ------------------------------------------------------------------ state
VARIABLES
  objs,      \* the parent objects in the cluster, by instance
  pc,        \* where each instance's reconciliation stands
  arg,       \* the object snapshot the running reconcile() was called with
  calls,     \* the apply_owned calls of the current invocation, in order
  ret,       \* what the last reconcile() returned
  action,    \* the ReconcilerAction the controller holds for the instance
  runs,      \* invocations started, per instance
  failures,  \* invocations that ended in error_policy, per instance
  store,     \* the API server's objects: key -> [body, manager]
  panicked,  \* the hdfs-operator process has panicked
  events,    \* disturbances the environment has caused so far
  quota      \* disturbances the environment may cause in this deployment

vars == << objs, pc, arg, calls, ret, action, runs, failures, store,
           panicked, events, quota >>

\* ------------------------------------------------------- Option and strings
None == <<>>
Some(x) == <<x>>
unwrap_or(o, d) == IF o = None THEN d ELSE o[1]

\* F applied to the value of x: x is evaluated once, where it is bound
let(x, F(_)) == CHOOSE y \in {F(v) : v \in {x}} : TRUE

RECURSIVE join(_, _)
join(strs, sep) ==
  let(strs, LAMBDA s :
    IF Len(s) = 0 THEN ""
    ELSE IF Len(s) = 1 THEN s[1]
    ELSE s[1] \o sep \o join(Tail(s), sep))

RECURSIVE concat(_)
concat(strs) ==
  let(strs, LAMBDA s : IF Len(s) = 0 THEN "" ELSE s[1] \o concat(Tail(s)))

RECURSIVE flatten(_)
flatten(seqs) ==
  let(seqs, LAMBDA s : IF Len(s) = 0 THEN <<>> ELSE s[1] \o flatten(Tail(s)))

\* (0..n).map(f).collect(): the half-open range 0..n-1, empty when n <= 0
range_map(n, f(_)) == [k \in 1..n |-> f(k - 1)]

Put(f, k, v) == [x \in (DOMAIN f) \cup {k} |-> IF x = k THEN v ELSE f[x]]

\* --------------------------------------------------------------- crd.rs
\* variant: the realm's block is not closed
KerberosConfig_to_string_unclosed(kerberos) ==
  "[libdefaults]\n"
  \o (IF kerberos.realm # None
      THEN "default_realm = " \o kerberos.realm[1] \o "\n" ELSE "")
  \o "[realms]\n"
  \o (IF kerberos.realm # None
      THEN kerberos.realm[1] \o " = {\n"
           \o (IF kerberos.kdc # None
               THEN "kdc = " \o kerberos.kdc[1] \o "\n" ELSE "")
      ELSE "")

KerberosConfig_to_string(kerberos) ==
  "[libdefaults]\n"
  \o (IF kerberos.realm # None
      THEN "default_realm = " \o kerberos.realm[1] \o "\n" ELSE "")
  \o "[realms]\n"
  \o (IF kerberos.realm # None
      THEN kerberos.realm[1] \o " = {\n"
           \o (IF kerberos.kdc # None
               THEN "kdc = " \o kerberos.kdc[1] \o "\n" ELSE "")
           \o "}\n"
      ELSE "")

HdfsCluster(name, namespace, uid, nn, dn, jn, znode, realm, kdc) ==
  [ kind |-> "HdfsCluster",
    api_version |-> "hdfs.stackable.tech/v1alpha1",
    metadata |-> [name |-> name, namespace |-> namespace, uid |-> uid],
    spec |-> [ namenode_replicas |-> nn,
               datanode_replicas |-> dn,
               journalnode_replicas |-> jn,
               namenode_znode_config_map |-> znode,
               kerberos |-> [realm |-> realm, kdc |-> kdc] ] ]

\* -------------------------------------------------- controller.rs helpers
controller_reference_to_obj(obj) ==
  [ api_version |-> obj.api_version,
    kind |-> obj.kind,
    controller |-> Some(TRUE),
    name |-> obj.metadata.name,
    uid |-> obj.metadata.uid ]

hadoop_config_xml(kvs) ==
  let(kvs, LAMBDA ps :
    "<configuration>\n"
    \o concat([k \in 1..Len(ps) |->
         "<property><name>" \o ps[k][1] \o "</name><value>" \o ps[k][2]
         \o "</value></property>\n"])
    \o "</configuration>")

local_disk_claim(name, size) ==
  [ metadata |-> [name |-> name],
    spec |-> [ access_modes |-> <<"ReadWriteOnce">>,
               resources |-> [requests |-> [storage |-> size]] ] ]

hadoop_container ==
  [ image |-> "teozkr/hadoop:3.3.1",
    env |-> << [name |-> "HADOOP_HOME", value |-> "/opt/hadoop"],
               [name |-> "HADOOP_CONF_DIR", value |-> "/config"],
               [name |-> "JAVA_TOOL_OPTIONS",
                value |-> "-Djava.security.krb5.conf=/config/krb5.conf"] >>,
    volume_mounts |-> << [mount_path |-> "/data", name |-> "data"],
                         [mount_path |-> "/config", name |-> "config"],
                         [mount_path |-> "/kerberos", name |-> "kerberos"] >> ]

\* ------------------------------------- reconcile_hdfs: names and addresses
\* variant: one config bundle name for all clusters
config_name_shared(name) == "hdfs-config"
config_name(name) == name \o "-config"
pod_labels == [app |-> "hdfs"]
role_pod_labels(role) == [app |-> "hdfs", role |-> role]

nameservice_id(name) == name
namenode_name(name) == name \o "-namenode"
namenode_fqdn(name, ns) == namenode_name(name) \o "." \o ns \o ".svc.cluster.local"
namenode_pod_fqdn(name, ns, i) ==
  namenode_name(name) \o "-" \o ToString(i) \o "." \o namenode_fqdn(name, ns)
datanode_name(name) == name \o "-datanode"
journalnode_name(name) == name \o "-journalnode"
journalnode_fqdn(name, ns) ==
  journalnode_name(name) \o "." \o ns \o ".svc.cluster.local"
\* variant: the ordinal is left out of the replica's name
journalnode_pod_fqdn_no_ordinal(name, ns, i) ==
  journalnode_name(name) \o "-0." \o journalnode_fqdn(name, ns)

journalnode_pod_fqdn(name, ns, i) ==
  journalnode_name(name) \o "-" \o ToString(i) \o "." \o journalnode_fqdn(name, ns)

\* variant: no default realm
kerberos_realm_no_default(hdfs) == unwrap_or(hdfs.spec.kerberos.realm, "")

kerberos_realm(hdfs) == unwrap_or(hdfs.spec.kerberos.realm, "LOCAL")

\* variant: the two ports exchanged
namenode_addresses_ports_swapped(nsid, name, ns, i) ==
  << << "dfs.namenode.rpc-address." \o nsid \o ".name-" \o ToString(i),
        namenode_pod_fqdn(name, ns, i) \o ":9870" >>,
     << "dfs.namenode.http-address." \o nsid \o ".name-" \o ToString(i),
        namenode_pod_fqdn(name, ns, i) \o ":8020" >> >>

\* the closure of the flat_map over 0..namenode_replicas
namenode_addresses(nsid, name, ns, i) ==
  << << "dfs.namenode.rpc-address." \o nsid \o ".name-" \o ToString(i),
        namenode_pod_fqdn(name, ns, i) \o ":8020" >>,
     << "dfs.namenode.http-address." \o nsid \o ".name-" \o ToString(i),
        namenode_pod_fqdn(name, ns, i) \o ":9870" >> >>

hdfs_site_config(hdfs, ns) ==
  LET name == hdfs.metadata.name
      nsid == nameservice_id(name)
      nn == unwrap_or(hdfs.spec.namenode_replicas, 1)
      jn == unwrap_or(hdfs.spec.journalnode_replicas, 1)
      NameId(i) == "name-" \o ToString(i)
      JnFqdn(i) == journalnode_pod_fqdn(name, ns, i)
      NnAddrs(i) == namenode_addresses(nsid, name, ns, i)
  IN  << << "dfs.namenode.name.dir", "/data" >>,
         << "dfs.datanode.data.dir", "/data" >>,
         << "dfs.journalnode.edits.dir", "/data" >>,
         << "dfs.nameservices", nsid >>,
         << "dfs.ha.namenodes." \o nsid, join(range_map(nn, NameId), ", ") >>,
         << "dfs.namenode.shared.edits.dir",
            "qjournal://" \o join(range_map(jn, JnFqdn), ";") \o "/" \o nsid >>,
         << "dfs.client.failover.proxy.provider." \o nsid,
            "org.apache.hadoop.hdfs.server.namenode.ha.ConfiguredFailoverProxyProvider" >>,
         << "dfs.ha.fencing.methods", "shell(/bin/true)" >>,
         << "dfs.ha.nn.not-become-active-in-safemode", "true" >>,
         << "dfs.ha.automatic-failover.enabled", "true" >>,
         << "ha.zookeeper.quorum", "${env.ZOOKEEPER_BROKERS}" >>,
         << "dfs.block.access.token.enable", "true" >>,
         << "ignore.secure.ports.for.testing", "true" >>,
         << "dfs.journalnode.kerberos.principal",
            "jn/" \o namenode_fqdn(name, ns) \o "@" \o kerberos_realm(hdfs) >>,
         << "dfs.journalnode.keytab.file", "/kerberos/jn.service.keytab" >>,
         << "dfs.namenode.kerberos.principal",
            "nn/" \o namenode_fqdn(name, ns) \o "@" \o kerberos_realm(hdfs) >>,
         << "dfs.namenode.keytab.file", "/kerberos/nn.service.keytab" >>,
         << "dfs.datanode.kerberos.principal",
            "dn/" \o namenode_fqdn(name, ns) \o "@" \o kerberos_realm(hdfs) >>,
         << "dfs.datanode.keytab.file", "/kerberos/dn.service.keytab" >> >>
      \o flatten(range_map(nn, NnAddrs))

core_site_config(hdfs) ==
  << << "fs.defaultFS", "hdfs://" \o hdfs.metadata.name \o "/" >>,
     << "hadoop.security.authentication", "kerberos" >>,
     << "hadoop.security.authorization", "false" >> >>

log4j_properties == "include_str!(log4j.properties)"

\* ------------------------------------ reconcile_hdfs: the desired resources
\* variant: the owner reference is left out
owned_meta_unowned(owner, name, ns) ==
  [ owner_references |-> << >>,
    name |-> name,
    namespace |-> Some(ns) ]

owned_meta(owner, name, ns) ==
  [ owner_references |-> << controller_reference_to_obj(owner) >>,
    name |-> name,
    namespace |-> Some(ns) ]

\* variant: the bundle carries a value read from the cluster, not from the spec
hdfs_config_map_stamped(hdfs, ns) ==
  [ kind |-> "ConfigMap",
    metadata |-> owned_meta(hdfs, config_name(hdfs.metadata.name), ns),
    data |-> ( "core-site.xml" :> hadoop_config_xml(core_site_config(hdfs))
            @@ "hdfs-site.xml" :> hadoop_config_xml(hdfs_site_config(hdfs, ns))
            @@ "krb5.conf" :> KerberosConfig_to_string(hdfs.spec.kerberos)
            @@ "log4j.properties" :>
                 ("# objects: " \o ToString(Cardinality(DOMAIN store))) ) ]

hdfs_config_map(hdfs, ns) ==
  [ kind |-> "ConfigMap",
    metadata |-> owned_meta(hdfs, config_name(hdfs.metadata.name), ns),
    data |-> ( "core-site.xml" :> hadoop_config_xml(core_site_config(hdfs))
            @@ "hdfs-site.xml" :> hadoop_config_xml(hdfs_site_config(hdfs, ns))
            @@ "krb5.conf" :> KerberosConfig_to_string(hdfs.spec.kerberos)
            @@ "log4j.properties" :> log4j_properties ) ]

tcp_port(name, port) == [name |-> name, port |-> port, protocol |-> "TCP"]
http_service_port ==
  [name |-> "http", port |-> 80, target_port |-> "http", protocol |-> "TCP"]

journalnode_service(hdfs, ns) ==
  [ kind |-> "Service",
    metadata |-> owned_meta(hdfs, journalnode_name(hdfs.metadata.name), ns),
    spec |-> [ ports |-> << tcp_port("ipc", 8485) >>,
               selector |-> role_pod_labels("journalnode"),
               cluster_ip |-> Some("None"),
               publish_not_ready_addresses |-> Some(TRUE) ] ]

namenode_service(hdfs, ns) ==
  [ kind |-> "Service",
    metadata |-> owned_meta(hdfs, namenode_name(hdfs.metadata.name), ns),
    spec |-> [ ports |-> << tcp_port("ipc", 8020), http_service_port >>,
               selector |-> role_pod_labels("namenode"),
               cluster_ip |-> Some("None"),
               publish_not_ready_addresses |-> Some(TRUE) ] ]

datanode_service(hdfs, ns) ==
  [ kind |-> "Service",
    metadata |-> owned_meta(hdfs, datanode_name(hdfs.metadata.name), ns),
    spec |-> [ ports |-> << tcp_port("ipc", 9867), http_service_port >>,
               selector |-> role_pod_labels("datanode"),
               cluster_ip |-> Some("None"),
               publish_not_ready_addresses |-> None ] ]

pod_volumes(name, role_name) ==
  << [name |-> "config", config_map |-> [name |-> Some(name \o "-config")]],
     [name |-> "kerberos", secret |-> [secret_name |-> Some(role_name \o "-kerberos")]] >>

namenode_zkfc_container(hdfs) ==
  [ hadoop_container EXCEPT !.env =
      Append(@, [ name |-> "ZOOKEEPER_BROKERS",
                  value_from |-> [ config_map_key_ref |->
                    [ name |-> hdfs.spec.namenode_znode_config_map,
                      key |-> "ZOOKEEPER_BROKERS" ] ] ]) ]

format_namenode_script ==
  "/opt/hadoop/bin/hdfs namenode -bootstrapStandby -nonInteractive "
  \o "|| /opt/hadoop/bin/hdfs namenode -format -noninteractive "
  \o "|| true\n"
  \o "/opt/hadoop/bin/hdfs zkfc -formatZK -nonInteractive || true"

journalnode_pod_template(hdfs) ==
  [ metadata |-> [labels |-> role_pod_labels("journalnode")],
    spec |-> [ init_containers |-> << >>,
               containers |-> <<
                 [ name |-> "journalnode",
                   args |-> << "/opt/hadoop/bin/hdfs", "journalnode" >>,
                   ports |-> << tcp_port("ipc", 8485) >> ] @@ hadoop_container >>,
               volumes |-> pod_volumes(hdfs.metadata.name,
                                       journalnode_name(hdfs.metadata.name)),
               host_network |-> Some(TRUE),
               dns_policy |-> Some("ClusterFirstWithHostNet") ] ]

namenode_pod_template(hdfs) ==
  [ metadata |-> [labels |-> role_pod_labels("namenode")],
    spec |-> [ init_containers |-> <<
                 [ name |-> "format-namenode",
                   args |-> << "sh", "-c", format_namenode_script >> ]
                 @@ namenode_zkfc_container(hdfs) >>,
               containers |-> <<
                 [ name |-> "namenode",
                   args |-> << "/opt/hadoop/bin/hdfs", "namenode" >>,
                   ports |-> << tcp_port("ipc", 8020), tcp_port("http", 9870) >> ]
                 @@ hadoop_container,
                 [ name |-> "zkfc",
                   args |-> << "/opt/hadoop/bin/hdfs", "zkfc" >> ]
                 @@ namenode_zkfc_container(hdfs) >>,
               volumes |-> pod_volumes(hdfs.metadata.name,
                                       namenode_name(hdfs.metadata.name)),
               host_network |-> Some(TRUE),
               dns_policy |-> Some("ClusterFirstWithHostNet") ] ]

datanode_pod_template(hdfs) ==
  [ metadata |-> [labels |-> role_pod_labels("datanode")],
    spec |-> [ init_containers |-> << >>,
               containers |-> <<
                 [ name |-> "datanode",
                   args |-> << "/opt/hadoop/bin/hdfs", "datanode" >>,
                   ports |-> << tcp_port("ipc", 9867), tcp_port("data", 9866),
                                tcp_port("http", 9864) >> ] @@ hadoop_container >>,
               volumes |-> pod_volumes(hdfs.metadata.name,
                                       datanode_name(hdfs.metadata.name)),
               host_network |-> Some(TRUE),
               dns_policy |-> Some("ClusterFirstWithHostNet") ] ]

stateful_set(owner, ns, name, replicas, labels, template) ==
  [ kind |-> "StatefulSet",
    metadata |-> owned_meta(owner, name, ns),
    spec |-> [ pod_management_policy |-> Some("Parallel"),
               replicas |-> replicas,
               selector |-> [match_labels |-> labels],
               service_name |-> name,
               template |-> template,
               volume_claim_templates |-> << local_disk_claim("data", "1Gi") >> ] ]

journalnode_stateful_set(hdfs, ns) ==
  stateful_set(hdfs, ns, journalnode_name(hdfs.metadata.name),
               hdfs.spec.journalnode_replicas, role_pod_labels("journalnode"),
               journalnode_pod_template(hdfs))

namenode_stateful_set(hdfs, ns) ==
  stateful_set(hdfs, ns, namenode_name(hdfs.metadata.name),
               hdfs.spec.namenode_replicas, role_pod_labels("namenode"),
               namenode_pod_template(hdfs))

datanode_stateful_set(hdfs, ns) ==
  stateful_set(hdfs, ns, datanode_name(hdfs.metadata.name),
               hdfs.spec.datanode_replicas, role_pod_labels("datanode"),
               datanode_pod_template(hdfs))

\* ---------------------------------------------- apply_owned and the errors
HDFS_FIELD_MANAGER == "hdfs.stackable.tech/hdfscluster"
\* variant: apply without force
PatchParams_no_force == FALSE
PatchParams_force == TRUE

\* variant: the resource is deleted to be created anew
apply_owned_recreate(obj) ==
  [ verb |-> "delete",
    kind |-> obj.kind,
    namespace |-> obj.metadata.namespace,
    name |-> obj.metadata.name,
    params |-> [force |-> PatchParams_force, field_manager |-> HDFS_FIELD_MANAGER],
    body |-> obj ]

apply_owned(obj) ==
  [ verb |-> "patch",
    kind |-> obj.kind,
    namespace |-> obj.metadata.namespace,
    name |-> obj.metadata.name,
    params |-> [force |-> PatchParams_force, field_manager |-> HDFS_FIELD_MANAGER],
    body |-> obj ]

ObjectRef(obj) ==
  [kind |-> obj.kind, name |-> obj.metadata.name, namespace |-> obj.metadata.namespace]

Ok(v) == [tag |-> "Ok", val |-> v]
Err(e) == [tag |-> "Err", error |-> e]
NoResult == [tag |-> "none"]

\* one apply_owned(..).await of a reconciler together with what is done
\* with its Result: .unwrap(), or .context(Variant)?
Call(request, handler) == [request |-> request, handler |-> handler]
unwrap == [variant |-> "unwrap"]
context(variant) == [variant |-> variant]

\* reconcile_hdfs: `let ns = hdfs.metadata.namespace ... with_context(..)?`
\* variant: a missing namespace falls back to "default"
hdfs_namespace_default(hdfs) == Ok(unwrap_or(hdfs.metadata.namespace, "default"))

hdfs_namespace(hdfs) ==
  IF hdfs.metadata.namespace = None
  THEN Err([variant |-> "ObjectHasNoNamespace", obj_ref |-> ObjectRef(hdfs)])
  ELSE Ok(hdfs.metadata.namespace[1])

\* reconcile_hdfs: each apply_owned(..).await with what follows it
apply_config_map(hdfs, ns) ==
  Call(apply_owned(hdfs_config_map(hdfs, ns)), unwrap)
apply_journalnode_service(hdfs, ns) ==
  Call(apply_owned(journalnode_service(hdfs, ns)), context("ApplyPeerService"))
apply_journalnode_stateful_set(hdfs, ns) ==
  Call(apply_owned(journalnode_stateful_set(hdfs, ns)), context("ApplyStatefulSet"))
apply_namenode_service(hdfs, ns) ==
  Call(apply_owned(namenode_service(hdfs, ns)), context("ApplyPeerService"))
apply_namenode_stateful_set(hdfs, ns) ==
  Call(apply_owned(namenode_stateful_set(hdfs, ns)), context("ApplyStatefulSet"))
apply_datanode_service(hdfs, ns) ==
  Call(apply_owned(datanode_service(hdfs, ns)), context("ApplyPeerService"))
apply_datanode_stateful_set(hdfs, ns) ==
  Call(apply_owned(datanode_stateful_set(hdfs, ns)), context("ApplyStatefulSet"))

\* variant: all services before all workload groups
hdfs_apply_sequence_services_first(hdfs, ns) ==
  << apply_config_map(hdfs, ns),
     apply_journalnode_service(hdfs, ns),
     apply_namenode_service(hdfs, ns),
     apply_datanode_service(hdfs, ns),
     apply_journalnode_stateful_set(hdfs, ns),
     apply_namenode_stateful_set(hdfs, ns),
     apply_datanode_stateful_set(hdfs, ns) >>

\* variant: the last upsert is made a second time
hdfs_apply_sequence_repeated(hdfs, ns) ==
  << apply_config_map(hdfs, ns),
     apply_journalnode_service(hdfs, ns),
     apply_journalnode_stateful_set(hdfs, ns),
     apply_namenode_service(hdfs, ns),
     apply_namenode_stateful_set(hdfs, ns),
     apply_datanode_service(hdfs, ns),
     apply_datanode_stateful_set(hdfs, ns),
     apply_datanode_stateful_set(hdfs, ns) >>

\* reconcile_hdfs: the calls in program order
hdfs_apply_sequence(hdfs, ns) ==
  << apply_config_map(hdfs, ns),
     apply_journalnode_service(hdfs, ns),
     apply_journalnode_stateful_set(hdfs, ns),
     apply_namenode_service(hdfs, ns),
     apply_namenode_stateful_set(hdfs, ns),
     apply_datanode_service(hdfs, ns),
     apply_datanode_stateful_set(hdfs, ns) >>

\* reconcile_hdfs up to its first .await: the error of the namespace check,
\* or the calls it goes on to make
reconcile_hdfs(hdfs) ==
  LET ns == hdfs_namespace(hdfs)
  IN IF ns.tag = "Err" THEN ns ELSE Ok(hdfs_apply_sequence(hdfs, ns.val))

\* variant: a successful reconciliation asks to be run again periodically
reconcile_ok_periodic == [requeue_after |-> Some(300)]

reconcile_ok == [requeue_after |-> None]

\* variant: a longer delay for apply failures
error_policy_by_kind(error) ==
  [requeue_after |-> Some(IF error.variant = "ObjectHasNoNamespace" THEN 5 ELSE 10)]

error_policy(error) == [requeue_after |-> Some(5)]

\* ------------------------------------------------------- zk_controller.rs
ZK_FIELD_MANAGER == "zookeeper.stackable.tech/zookeepercluster"

ZookeeperCluster(name, namespace, uid, replicas, stopped) ==
  [ kind |-> "ZookeeperCluster",
    api_version |-> "zookeeper.stackable.tech/v1alpha1",
    metadata |-> [name |-> name, namespace |-> namespace, uid |-> uid],
    spec |-> [replicas |-> replicas, stopped |-> stopped] ]

global_service_name(zk) ==
  IF zk.metadata.name = None THEN None ELSE Some(zk.metadata.name[1] \o "-global")

server_role_service_name(zk) == zk.metadata.name

zk_controller_reference_to_obj(zk) ==
  [ api_version |-> zk.api_version,
    kind |-> zk.kind,
    controller |-> Some(TRUE),
    name |-> zk.metadata.name[1],
    uid |-> zk.metadata.uid ]

get_recommended_labels(zk, app, version, component, role_group) ==
  ( "app.kubernetes.io/name" :> app
 @@ "app.kubernetes.io/instance" :> zk.metadata.name[1]
 @@ "app.kubernetes.io/version" :> version
 @@ "app.kubernetes.io/component" :> component
 @@ "app.kubernetes.io/role-group" :> role_group
 @@ "app.kubernetes.io/managed-by" :> "stackable" )

zk_pods(zk, ns) ==
  LET role_svc == zk.metadata.name[1]
      Pod(i) == [ zookeeper_id |-> i + 1,
                  fqdn |-> role_svc \o "-" \o ToString(i) \o "." \o role_svc
                           \o "." \o ns \o ".svc.cluster.local" ]
  IN range_map(unwrap_or(zk.spec.replicas, 1), Pod)

zk_apply_owned(field_manager, obj) ==
  [ verb |-> "patch",
    kind |-> obj.kind,
    namespace |-> obj.metadata.namespace,
    name |-> obj.metadata.name,
    params |-> [force |-> TRUE, field_manager |-> field_manager],
    body |-> obj ]

zk_meta(zk, name, ns) ==
  [ name |-> name,
    namespace |-> Some(ns),
    owner_references |-> << zk_controller_reference_to_obj(zk) >> ]

zoo_cfg(zk, ns) ==
  LET pods == zk_pods(zk, ns)
      Server(k) == "server." \o ToString(pods[k].zookeeper_id) \o "="
                   \o pods[k].fqdn \o ":2888:3888;2181"
  IN "\ntickTime=2000\ninitLimit=10\nsyncLimit=5\ndataDir=/data\nclientPort=2181\n"
     \o join([k \in 1..Len(pods) |-> Server(k)], "\n") \o "\n"

zk_context(variant, zk) == [variant |-> variant, zk |-> ObjectRef(zk), role |-> "servers"]

reconcile_zk(zk) ==
  IF zk.metadata.namespace = None
  THEN Err([variant |-> "ObjectHasNoNamespace", obj_ref |-> ObjectRef(zk)])
  ELSE IF global_service_name(zk) = None \/ server_role_service_name(zk) = None
  THEN Err([ variant |-> "RoleServiceNameNotFound", obj_ref |-> ObjectRef(zk),
             role |-> "servers" ])
  ELSE LET ns == zk.metadata.namespace[1]
           global_svc_name == global_service_name(zk)[1]
           role_svc_servers_name == server_role_service_name(zk)[1]
           labels == get_recommended_labels(zk, "zookeeper", "3.7.0",
                                            "servers", "servers")
       IN Ok(<<
         Call(zk_apply_owned(ZK_FIELD_MANAGER,
                [ kind |-> "Service",
                  metadata |-> zk_meta(zk, global_svc_name, ns),
                  spec |-> [ ports |-> << tcp_port("zk", 2181) >>,
                             selector |-> labels,
                             type |-> Some("NodePort") ] ]),
              [variant |-> "ApplyGlobalService", zk |-> ObjectRef(zk)]),
         Call(zk_apply_owned(ZK_FIELD_MANAGER,
                [ kind |-> "Service",
                  metadata |-> zk_meta(zk, role_svc_servers_name, ns),
                  spec |-> [ cluster_ip |-> Some("None"),
                             ports |-> << tcp_port("zk", 2181) >>,
                             selector |-> labels,
                             publish_not_ready_addresses |-> Some(TRUE) ] ]),
              zk_context("ApplyRoleService", zk)),
         Call(zk_apply_owned(ZK_FIELD_MANAGER,
                [ kind |-> "ConfigMap",
                  metadata |-> zk_meta(zk, role_svc_servers_name, ns),
                  data |-> ("zoo.cfg" :> zoo_cfg(zk, ns)) ]),
              zk_context("ApplyRoleConfig", zk)),
         Call(zk_apply_owned(ZK_FIELD_MANAGER,
                [ kind |-> "StatefulSet",
                  metadata |-> zk_meta(zk, role_svc_servers_name, ns),
                  spec |-> [ pod_management_policy |-> Some("Parallel"),
                             replicas |-> IF unwrap_or(zk.spec.stopped, FALSE)
                                          THEN Some(0) ELSE zk.spec.replicas,
                             selector |-> [match_labels |-> labels],
                             service_name |-> role_svc_servers_name,
                             template |-> [
                               metadata |-> [labels |-> labels],
                               spec |-> [
                                 init_containers |-> << "decide-myid" >>,
                                 containers |-> << "zookeeper" >>,
                                 volumes |-> << [ name |-> "config",
                                   config_map |->
                                     [name |-> Some(role_svc_servers_name)] ] >> ] ],
                             volume_claim_templates |->
                               << local_disk_claim("data", "1Gi") >> ] ]),
              zk_context("ApplyStatefulSet", zk)) >>)

zk_error_policy(error) == [requeue_after |-> Some(5)]

\* ----------------------------------------------------------- the operators
Inst == DOMAIN objs
IsHdfs(obj) == obj.kind = "HdfsCluster"
HdfsInst == {i \in Inst : IsHdfs(objs[i])}
ZkInst == Inst \ HdfsInst

\* Controller::run(reconcile, error_policy, ctx) of each operator's main
reconcile(obj) == IF IsHdfs(obj) THEN reconcile_hdfs(obj) ELSE reconcile_zk(obj)
policy(obj, error) == IF IsHdfs(obj) THEN error_policy(error) ELSE zk_error_policy(error)

Plan(i) == reconcile(arg[i]).val
Key(req) == << req.kind, req.namespace, req.name >>

\* the API server's handling of one request
api_patch(s, req) ==
  LET k == Key(req)
  IN IF req.verb = "delete"
     THEN [ok |-> TRUE, store |-> [x \in (DOMAIN s) \ {k} |-> s[x]]]
     ELSE IF /\ k \in DOMAIN s
             /\ s[k].manager # req.params.field_manager
             /\ s[k].body # req.body
             /\ ~req.params.force
     THEN [ok |-> FALSE, store |-> s, source |-> "Conflict"]
     ELSE [ok |-> TRUE,
           store |-> Put(s, k, [body |-> req.body,
                                manager |-> req.params.field_manager])]

\* how a request can fail: refused by the server, or lost by the transport
\* before or after the server has handled it
ErrReplies(s, req, left) ==
  LET r == api_patch(s, req)
  IN (IF r.ok THEN {} ELSE {[source |-> r.source, store |-> s, cost |-> 0]})
     \cup (IF left > 0
           THEN {[source |-> "Transport", store |-> s, cost |-> 1],
                 [source |-> "Transport", store |-> r.store, cost |-> 1]}
           ELSE {})

SetStatus(cs, status) == [cs EXCEPT ![Len(cs)].status = status]

\* ---------------------------------------------------------------- actions
Trigger(i) ==
  /\ pc[i] = "idle"
  /\ IsHdfs(objs[i]) => ~panicked
  /\ runs[i] < MaxRuns
  /\ pc' = [pc EXCEPT ![i] = "start"]
  /\ arg' = [arg EXCEPT ![i] = objs[i]]
  /\ calls' = [calls EXCEPT ![i] = << >>]
  /\ ret' = [ret EXCEPT ![i] = NoResult]
  /\ runs' = [runs EXCEPT ![i] = @ + 1]
  /\ UNCHANGED << objs, action, failures, store, panicked, events, quota >>

Begin(i) ==
  /\ pc[i] = "start"
  /\ IsHdfs(objs[i]) => ~panicked
  /\ LET r == reconcile(arg[i])
     IN IF r.tag = "Err"
        THEN /\ ret' = [ret EXCEPT ![i] = r]
             /\ pc' = [pc EXCEPT ![i] = "returned"]
        ELSE /\ ret' = ret
             /\ pc' = [pc EXCEPT ![i] = "call"]
  /\ UNCHANGED << objs, arg, calls, action, runs, failures, store, panicked,
                  events, quota >>

Issue(i) ==
  /\ pc[i] = "call"
  /\ IsHdfs(objs[i]) => ~panicked
  /\ calls' = [calls EXCEPT ![i] =
       Append(@, [request |-> Plan(i)[Len(@) + 1].request, status |-> "inflight"])]
  /\ pc' = [pc EXCEPT ![i] = "await"]
  /\ UNCHANGED << objs, arg, ret, action, runs, failures, store, panicked,
                  events, quota >>

ReplyOk(i) ==
  /\ pc[i] = "await"
  /\ IsHdfs(objs[i]) => ~panicked
  /\ LET n == Len(calls[i])
         r == api_patch(store, calls[i][n].request)
     IN /\ r.ok
        /\ store' = r.store
        /\ calls' = [calls EXCEPT ![i] = SetStatus(@, "ok")]
        /\ IF n = Len(Plan(i))
           THEN /\ ret' = [ret EXCEPT ![i] = Ok(reconcile_ok)]
                /\ pc' = [pc EXCEPT ![i] = "returned"]
           ELSE /\ ret' = ret
                /\ pc' = [pc EXCEPT ![i] = "call"]
  /\ UNCHANGED << objs, arg, action, runs, failures, panicked, events, quota >>

ReplyErr(i) ==
  /\ pc[i] = "await"
  /\ IsHdfs(objs[i]) => ~panicked
  /\ LET n == Len(calls[i])
         handler == Plan(i)[n].handler
     IN \E e \in ErrReplies(store, calls[i][n].request, quota - events) :
          /\ store' = e.store
          /\ events' = events + e.cost
          /\ calls' = [calls EXCEPT ![i] = SetStatus(@, "err")]
          /\ IF handler.variant = "unwrap"
             THEN /\ pc' = [pc EXCEPT ![i] = "panic"]
                  /\ panicked' = TRUE
                  /\ ret' = ret
             ELSE /\ pc' = [pc EXCEPT ![i] = "returned"]
                  /\ panicked' = panicked
                  /\ ret' = [ret EXCEPT ![i] =
                               Err(handler @@ [source |-> e.source])]
  /\ UNCHANGED << objs, arg, action, runs, failures, quota >>

Finish(i) ==
  /\ pc[i] = "returned"
  /\ ret[i].tag = "Ok"
  /\ IsHdfs(objs[i]) => ~panicked
  /\ action' = [action EXCEPT ![i] = ret[i].val]
  /\ pc' = [pc EXCEPT ![i] = "idle"]
  /\ UNCHANGED << objs, arg, calls, ret, runs, failures, store, panicked,
                  events, quota >>

ErrorPolicy(i) ==
  /\ pc[i] = "returned"
  /\ ret[i].tag = "Err"
  /\ IsHdfs(objs[i]) => ~panicked
  /\ action' = [action EXCEPT ![i] = policy(objs[i], ret[i].error)]
  /\ failures' = [failures EXCEPT ![i] = @ + 1]
  /\ pc' = [pc EXCEPT ![i] = "idle"]
  /\ UNCHANGED << objs, arg, calls, ret, runs, store, panicked, events, quota >>

\* another actor edits a field the operator manages and becomes its manager
Tamper(body) ==
  IF body.kind = "ConfigMap"
  THEN [body EXCEPT !.data = [f \in DOMAIN @ |-> ""]]
  ELSE IF body.kind = "Service"
  THEN [body EXCEPT !.spec.selector = [app |-> "other"]]
  ELSE [body EXCEPT !.spec.pod_management_policy = Some("OrderedReady")]

ExternalEdit(k) ==
  /\ events < quota
  /\ store[k].manager # "kubectl-edit"
  /\ store' = [store EXCEPT ![k] = [body |-> Tamper(@.body), manager |-> "kubectl-edit"]]
  /\ events' = events + 1
  /\ UNCHANGED << objs, pc, arg, calls, ret, action, runs, failures, panicked, quota >>

ReplicaChoices == {None, Some(0), Some(1), Some(2)}

SpecChange(i, role, r) ==
  /\ events < quota
  /\ IsHdfs(objs[i])
  /\ objs[i].spec[role] # r
  /\ objs' = [objs EXCEPT ![i].spec[role] = r]
  /\ events' = events + 1
  /\ UNCHANGED << pc, arg, calls, ret, action, runs, failures, store, panicked, quota >>

Next ==
  \/ \E i \in Inst : Trigger(i)
  \/ \E i \in Inst : Begin(i)
  \/ \E i \in Inst : Issue(i)
  \/ \E i \in Inst : ReplyOk(i)
  \/ \E i \in Inst : ReplyErr(i)
  \/ \E i \in Inst : Finish(i)
  \/ \E i \in Inst : ErrorPolicy(i)
  \/ \E k \in DOMAIN store : ExternalEdit(k)
  \/ \E i \in Inst, r \in ReplicaChoices,
        role \in {"namenode_replicas", "datanode_replicas", "journalnode_replicas"} :
       SpecChange(i, role, r)

\* ------------------------------------------------------------ deployments
Hdfs1 == HdfsCluster("hdfs1", Some("ns"), "uid-1", Some(2), None, Some(3),
                     None, None, None)
Hdfs1NoNamespace == HdfsCluster("hdfs1", None, "uid-1", Some(2), None, Some(3),
                                None, None, None)
Hdfs1Kerberos == HdfsCluster("hdfs1", Some("ns"), "uid-1", None, Some(1), None,
                             Some("zk1"), Some("EXAMPLE.COM"),
                             Some("kdc.example.com"))
Hdfs2Choices ==
  { HdfsCluster("hdfs2", Some("ns"), "uid-2", None, None, None, None, None, None),
    HdfsCluster("hdfs1", Some("ns2"), "uid-2", None, None, None, None, None, None),
    HdfsCluster("hdfs1-namenode", Some("ns"), "uid-2", None, None, None,
                None, None, None) }
ZkChoices ==
  { ZookeeperCluster(Some("zk1"), Some("ns"), "uid-3", Some(3), None),
    ZookeeperCluster(Some("zk1"), Some("ns"), "uid-3", None, Some(TRUE)),
    ZookeeperCluster(Some("zk1"), None, "uid-3", Some(3), None),
    ZookeeperCluster(None, Some("ns"), "uid-3", Some(3), None) }

Deployments ==
  { [objs |-> ("h1" :> h), quota |-> MaxEvents] :
      h \in {Hdfs1, Hdfs1NoNamespace, Hdfs1Kerberos} }
  \cup
  { [objs |-> ("h1" :> Hdfs1 @@ "h2" :> h), quota |-> 0] :
      h \in Hdfs2Choices }
  \cup
  { [objs |-> ("z1" :> z), quota |-> MaxEvents] :
      z \in ZkChoices }
  \cup
  { [objs |-> ("h1" :> Hdfs1NoNamespace @@ "z1" :> z), quota |-> MaxEvents] :
      z \in { ZookeeperCluster(Some("zk1"), Some("ns"), "uid-3", Some(3), None),
              ZookeeperCluster(None, Some("ns"), "uid-3", Some(3), None) } }

Init ==
  \E d \in Deployments :
    /\ objs = d.objs
    /\ quota = d.quota
    /\ events = 0
    /\ pc = [i \in DOMAIN d.objs |-> "idle"]
    /\ arg = d.objs
    /\ calls = [i \in DOMAIN d.objs |-> << >>]
    /\ ret = [i \in DOMAIN d.objs |-> NoResult]
    /\ action = [i \in DOMAIN d.objs |-> [requeue_after |-> None]]
    /\ runs = [i \in DOMAIN d.objs |-> 0]
    /\ failures = [i \in DOMAIN d.objs |-> 0]
    /\ store = << >>
    /\ panicked = FALSE

Spec == Init /\ [][Next]_vars

\* the instance names of the deployments
AllInst == {"h1", "h2", "z1"}

\* a step of the controller for instance i: kube_runtime polls the reconciler
\* future of a scheduled object until it resolves, and schedules the object
\* again when the requeue delay of its ReconcilerAction has passed
Step(i) ==
  /\ i \in Inst
  /\ \/ Trigger(i) \/ Begin(i) \/ Issue(i) \/ ReplyOk(i) \/ ReplyErr(i)
     \/ Finish(i) \/ ErrorPolicy(i)

FairSpec == Spec /\ \A i \in AllInst : WF_vars(Step(i))

\* ------------------------------------------- the derivation, input by input
\* one HdfsCluster per behaviour, reconciled with no disturbance: the replica
\* counts of the three roles in all combinations, the four Kerberos
\* settings, a realm with markup characters, other names and namespaces
ReplicaInputs == {None, Some(0), Some(1), Some(2), Some(3)}
RealmInputs == {None, Some("EXAMPLE.COM"), Some("R&D<LAB>")}
KdcInputs == {None, Some("kdc.example.com")}

DeriveInputs ==
  { HdfsCluster("hdfs1", Some("ns"), "uid-1", nn, dn, jn, None, None, None) :
      nn \in ReplicaInputs, dn \in ReplicaInputs, jn \in ReplicaInputs }
  \cup
  { HdfsCluster("hdfs1", Some("ns"), "uid-1", Some(2), None, Some(3),
                Some("zk1"), realm, kdc) :
      realm \in RealmInputs, kdc \in KdcInputs }
  \cup
  { HdfsCluster(name, Some(ns), "uid-1", Some(2), Some(1), Some(3),
                None, None, None) :
      name \in {"hdfs1", "a"}, ns \in {"ns", "prod"} }

DeriveInit ==
  \E h \in DeriveInputs :
    /\ objs = ("h1" :> h)
    /\ quota = 0
    /\ events = 0
    /\ pc = ("h1" :> "idle")
    /\ arg = ("h1" :> h)
    /\ calls = ("h1" :> << >>)
    /\ ret = ("h1" :> NoResult)
    /\ action = ("h1" :> [requeue_after |-> None])
    /\ runs = ("h1" :> 0)
    /\ failures = ("h1" :> 0)
    /\ store = << >>
    /\ panicked = FALSE

DeriveNext ==
  \/ \E i \in Inst : Trigger(i)
  \/ \E i \in Inst : Begin(i)
  \/ \E i \in Inst : Issue(i)
  \/ \E i \in Inst : ReplyOk(i)
  \/ \E i \in Inst : Finish(i)

DeriveSpec == DeriveInit /\ [][DeriveNext]_vars

\* ------------------------------------------------------------- properties
\* the invocation whose arg, calls and ret are in the state has passed its
\* validation
Validated(i) == runs[i] > 0 /\ pc[i] # "start"
Succeeded(i) == ret[i].tag = "Ok"
Failed(i) == ret[i].tag = "Err"
Keys(cs) == {Key(cs[n].request) : n \in 1..Len(cs)}

\* the resource kind an Error variant of the HDFS reconciler names
ErrorResourceKind(variant) ==
  CASE variant \in {"ApplyPeerService", "ApplyExternalService"} -> "Service"
    [] variant = "ApplyStatefulSet" -> "StatefulSet"
    [] OTHER -> "none"

\* C1: in an HDFS reconciliation a failing upsert is the last call of the
\* invocation, and reconcile returns an error whose variant names the kind of
\* the resource whose upsert failed; this for each of the seven upserts.
C1_FirstFailureClassified ==
  \A i \in HdfsInst : \A n \in 1..Len(calls[i]) :
    calls[i][n].status = "err" =>
      /\ n = Len(calls[i])
      /\ Failed(i)
      /\ ErrorResourceKind(ret[i].error.variant) = calls[i][n].request.kind

\* C2: an object without namespace makes reconcile return
\* ObjectHasNoNamespace, a ZookeeperCluster whose service names cannot be
\* derived makes it return RoleServiceNameNotFound with its role, and in
\* both cases (HDFS and ZooKeeper) the invocation has issued no upsert.
C2_ValidationBeforeUpsert ==
  \A i \in Inst :
    /\ (Validated(i) /\ arg[i].metadata.namespace = None) =>
         /\ Failed(i)
         /\ ret[i].error.variant = "ObjectHasNoNamespace"
         /\ calls[i] = << >>
    /\ (Validated(i) /\ ~IsHdfs(arg[i]) /\ arg[i].metadata.namespace # None
          /\ arg[i].metadata.name = None) =>
         /\ Failed(i)
         /\ ret[i].error.variant = "RoleServiceNameNotFound"
         /\ ret[i].error.role = "servers"
         /\ calls[i] = << >>
    /\ (Failed(i) /\ ret[i].error.variant \in
          {"ObjectHasNoNamespace", "RoleServiceNameNotFound",
           "GlobalServiceNameNotFound"}) => calls[i] = << >>

C2_Witness ==
  /\ {"h1", "z1"} \subseteq Inst
  /\ pc["h1"] = "idle" /\ Failed("h1")
  /\ ret["h1"].error.variant = "ObjectHasNoNamespace"
  /\ pc["z1"] = "idle" /\ Failed("z1")
  /\ ret["z1"].error.variant = "RoleServiceNameNotFound"
  /\ store = << >>

\* C3: the upserts of an HDFS reconciliation are issued in the order config
\* bundle, journalnode service, journalnode workload group, namenode service,
\* namenode workload group, datanode service, datanode workload group, and
\* each is issued only after all earlier ones have succeeded.
FixedOrder(name) ==
  << << "ConfigMap", name \o "-config" >>,
     << "Service", name \o "-journalnode" >>,
     << "StatefulSet", name \o "-journalnode" >>,
     << "Service", name \o "-namenode" >>,
     << "StatefulSet", name \o "-namenode" >>,
     << "Service", name \o "-datanode" >>,
     << "StatefulSet", name \o "-datanode" >> >>

C3_FixedOrder ==
  \A i \in HdfsInst :
    /\ Len(calls[i]) <= 7
    /\ \A n \in 1..Len(calls[i]) :
         /\ << calls[i][n].request.kind, calls[i][n].request.name >>
              = FixedOrder(arg[i].metadata.name)[n]
         /\ n < Len(calls[i]) => calls[i][n].status = "ok"

C3_Witness ==
  \E i \in HdfsInst :
    /\ Succeeded(i)
    /\ Len(calls[i]) = 7
    /\ \A n \in 1..7 : calls[i][n].status = "ok"

\* C4: for an instance with a valid spec, once the transport has stopped
\* failing, the controller under fair scheduling reaches a reconciliation
\* that returns Ok with every resource of its sequence in the store, each
\* with the desired body unless another actor has edited it since.
ValidSpec(obj) ==
  /\ obj.metadata.namespace # None
  /\ IsHdfs(obj) \/ obj.metadata.name # None

Converged(i) ==
  /\ Succeeded(i)
  /\ Len(calls[i]) = Len(Plan(i))
  /\ \A n \in 1..Len(calls[i]) :
       LET req == calls[i][n].request
       IN /\ Key(req) \in DOMAIN store
          /\ \/ store[Key(req)].manager = "kubectl-edit"
             \/ store[Key(req)].body = req.body

C4_Convergence ==
  \A i \in AllInst :
    <>(i \in Inst => (ValidSpec(objs[i]) => Converged(i)))

\* C5: after every failed invocation, whatever the error and however many
\* invocations of the instance have failed before, the action the controller
\* holds for the instance is a requeue after 5 seconds.
C5_FlatRetry ==
  \A i \in Inst :
    (pc[i] = "idle" /\ Failed(i)) => action[i] = [requeue_after |-> Some(5)]

C5_Witness ==
  /\ {"h1", "z1"} \subseteq Inst
  /\ pc["h1"] = "idle" /\ Failed("h1") /\ failures["h1"] = 2
  /\ ret["h1"].error.variant = "ObjectHasNoNamespace"
  /\ pc["z1"] = "idle" /\ Failed("z1") /\ failures["z1"] = 1
  /\ ret["z1"].error.variant \in
       {"ApplyGlobalService", "ApplyRoleService", "ApplyRoleConfig", "ApplyStatefulSet"}
  /\ action["h1"] = action["z1"]

\* C6: every request issued to the store is a patch (upsert), no step removes
\* a resource from the store, and a failing upsert leaves every other
\* resource, those applied earlier in the invocation among them, as it was.
C6_UpsertOnly ==
  /\ [](\A i \in Inst : \A n \in 1..Len(calls[i]) :
          calls[i][n].request.verb = "patch")
  /\ [][ /\ DOMAIN store \subseteq DOMAIN store'
         /\ \A i \in Inst :
              ( /\ pc[i] = "await"
                /\ calls'[i] # calls[i]
                /\ calls'[i][Len(calls[i])].status = "err" ) =>
                \A k \in DOMAIN store \ {Key(calls[i][Len(calls[i])].request)} :
                  store'[k] = store[k] ]_vars

C6_Witness ==
  \E i \in Inst :
    /\ Failed(i)
    /\ Len(calls[i]) >= 3
    /\ calls[i][Len(calls[i])].status = "err"
    /\ \A n \in 1..(Len(calls[i]) - 1) :
         /\ Key(calls[i][n].request) \in DOMAIN store
         /\ store[Key(calls[i][n].request)].body = calls[i][n].request.body

\* C7: every upsert of an operator carries that operator's one field-manager
\* identifier, no upsert is refused because another manager holds a field,
\* and a resource that an upsert of the invocation has written holds the
\* desired body of that upsert unless another actor has edited it after the
\* upsert; an edit made before the upsert is overwritten by it.
C7_ForceApply ==
  \A i \in Inst :
    /\ \A n \in 1..Len(calls[i]) :
         LET c == calls[i][n]
             k == Key(c.request)
         IN /\ c.request.params.field_manager =
                 (IF IsHdfs(arg[i]) THEN "hdfs.stackable.tech/hdfscluster"
                  ELSE "zookeeper.stackable.tech/zookeepercluster")
            /\ c.status = "ok" =>
                 /\ k \in DOMAIN store
                 /\ store[k].manager # "kubectl-edit" =>
                      store[k] = [ body |-> c.request.body,
                                   manager |-> c.request.params.field_manager ]
    /\ (Failed(i) /\ "source" \in DOMAIN ret[i].error) =>
         ret[i].error.source # "Conflict"

\* an edit by another actor, the only event of the behaviour, has been
\* overwritten by the second, successful reconciliation
C7_Witness ==
  \E i \in Inst :
    /\ quota > 0 /\ events = quota
    /\ runs[i] = 2 /\ failures[i] = 0 /\ ~panicked
    /\ arg[i] = objs[i] /\ Succeeded(i)
    /\ Len(calls[i]) = Len(Plan(i))
    /\ \A n \in 1..Len(calls[i]) :
         /\ calls[i][n].status = "ok"
         /\ store[Key(calls[i][n].request)].body = calls[i][n].request.body
         /\ store[Key(calls[i][n].request)].manager # "kubectl-edit"

\* C8: in a second reconciliation of an instance, with no failure, external
\* edit or spec change since the first, every upsert that succeeds leaves the
\* store as it was: the body it carries is the one the first run stored.
C8_FixedPoint ==
  [][ \A i \in Inst :
        ( /\ runs[i] >= 2
          /\ events' = 0
          /\ pc[i] = "await"
          /\ pc'[i] # "await" ) => store' = store ]_vars

C8_Witness ==
  \E i \in Inst :
    /\ runs[i] = 2 /\ events = 0 /\ quota > 0
    /\ pc[i] = "idle" /\ Succeeded(i)
    /\ Len(calls[i]) = Len(Plan(i))
    /\ \A n \in 1..Len(calls[i]) :
         store[Key(calls[i][n].request)].body = calls[i][n].request.body

\* C9: of the calls of an invocation only the last can be in flight, and then
\* the reconciler is awaiting it; every call before the last has returned
\* Ok, so a failed call is followed by no other; and no two calls of the
\* invocation address the same resource.
C9_Sequential ==
  \A i \in Inst :
    LET cs == calls[i]
    IN /\ \A n \in 1..Len(cs) :
            /\ cs[n].status = "inflight" => (n = Len(cs) /\ pc[i] = "await")
            /\ cs[n].status = "err" => n = Len(cs)
            /\ pc[i] = "call" => cs[n].status = "ok"
       /\ \A m, n \in 1..Len(cs) :
            m # n => Key(cs[m].request) # Key(cs[n].request)

C9_Witness ==
  \E i \in HdfsInst :
    /\ pc[i] = "await"
    /\ Len(calls[i]) = 7
    /\ calls[i][7].status = "inflight"
    /\ \A n \in 1..6 : calls[i][n].status = "ok"

\* C10: two distinct HdfsCluster instances never upsert the same resource,
\* and when the reconciliations of both have succeeded, however their calls
\* were interleaved, the store is the one that results from running the two
\* reconciliations one after the other, in either order.
RECURSIVE ApplyAll(_, _)
ApplyAll(s, plan) ==
  IF plan = << >> THEN s
  ELSE ApplyAll(api_patch(s, Head(plan).request).store, Tail(plan))

Serial(a, b) == ApplyAll(ApplyAll(<< >>, reconcile(a).val), reconcile(b).val)

C10_Interleaving ==
  \A i, j \in HdfsInst :
    i # j =>
      /\ Keys(calls[i]) \cap Keys(calls[j]) = {}
      /\ (Succeeded(i) /\ Succeeded(j) /\ events = 0) =>
           /\ store = Serial(arg[i], arg[j])
           /\ store = Serial(arg[j], arg[i])

\* the reconciliations of both instances have run to success side by side
C10_Witness ==
  /\ {"h1", "h2"} \subseteq Inst
  /\ Succeeded("h1") /\ Succeeded("h2")
  /\ pc["h1"] = "returned" /\ pc["h2"] = "returned"
  /\ runs["h1"] = 1 /\ runs["h2"] = 1
  /\ Cardinality(DOMAIN store) = 14

\* ------------------------------------------- properties of the derivation
\* the text t occurs in the text s
Contains(s, t) ==
  \E p \in 1..(Len(s) - Len(t) + 1) : SubSeq(s, p, p + Len(t) - 1) = t

\* the element the renderer writes for one pair
PropertyElement(k, v) ==
  "<property><name>" \o k \o "</name><value>" \o v \o "</value></property>\n"

ConfigMapKey(hdfs) ==
  << "ConfigMap", hdfs.metadata.namespace, hdfs.metadata.name \o "-config" >>

\* the config bundle of the running invocation has just been upserted
ConfigWritten(i) ==
  /\ IsHdfs(arg[i])
  /\ pc[i] = "call"
  /\ Len(calls[i]) = 1
  /\ ConfigMapKey(arg[i]) \in DOMAIN store

SiteXml(i) == store[ConfigMapKey(arg[i])].body.data["hdfs-site.xml"]

\* C11: the site configuration written for a cluster holds, under
\* dfs.namenode.shared.edits.dir, "qjournal://", then one entry per
\* journalnode replica in ordinal order, each the replica's address with
\* ":8485" appended, separated by ";", then "/" and the cluster name.
JournalQuorumUri(hdfs) ==
  LET name == hdfs.metadata.name
      ns == hdfs.metadata.namespace[1]
      J == unwrap_or(hdfs.spec.journalnode_replicas, 1)
  IN "qjournal://"
     \o join([k \in 1..J |-> journalnode_pod_fqdn(name, ns, k - 1) \o ":8485"], ";")
     \o "/" \o name

C11_JournalQuorumUri ==
  \A i \in Inst :
    ConfigWritten(i) =>
      Contains(SiteXml(i),
               PropertyElement("dfs.namenode.shared.edits.dir",
                               JournalQuorumUri(arg[i])))

\* the number of places at which the text t occurs in the text s
Count(s, t) ==
  Cardinality({p \in 1..(Len(s) - Len(t) + 1) : SubSeq(s, p, p + Len(t) - 1) = t})

\* C12: for N namenode replicas the written site configuration lists the
\* logical ids name-0 .. name-(N-1) in order; for each listed id it holds one
\* rpc-address entry, with the replica's address and port 8020, and one
\* http-address entry, with the replica's address and port 9870; and it
\* holds N entries of either kind in all, so none for an id not listed.
C12_NamenodeAddresses ==
  \A i \in Inst :
    ConfigWritten(i) =>
      LET name == arg[i].metadata.name
          ns == arg[i].metadata.namespace[1]
          N == unwrap_or(arg[i].spec.namenode_replicas, 1)
          xml == SiteXml(i)
          Id(k) == "name-" \o ToString(k)
      IN /\ Contains(xml, PropertyElement("dfs.ha.namenodes." \o name,
                                           join([k \in 1..N |-> Id(k - 1)], ", ")))
         /\ \A k \in 0..(N - 1) :
              /\ Contains(xml, PropertyElement(
                     "dfs.namenode.rpc-address." \o name \o "." \o Id(k),
                     namenode_pod_fqdn(name, ns, k) \o ":8020"))
              /\ Contains(xml, PropertyElement(
                     "dfs.namenode.http-address." \o name \o "." \o Id(k),
                     namenode_pod_fqdn(name, ns, k) \o ":9870"))
              /\ Count(xml, "<name>dfs.namenode.rpc-address." \o name \o "."
                              \o Id(k) \o "</name>") = 1
              /\ Count(xml, "<name>dfs.namenode.http-address." \o name \o "."
                              \o Id(k) \o "</name>") = 1
         /\ Count(xml, "<name>dfs.namenode.rpc-address.") = N
         /\ Count(xml, "<name>dfs.namenode.http-address.") = N

C12_Witness ==
  \E i \in Inst :
    /\ ConfigWritten(i)
    /\ arg[i].spec.namenode_replicas = Some(3)
    /\ Count(SiteXml(i), "<name>dfs.namenode.rpc-address.") = 3

\* C13: for R replicas of a role the written configuration holds the
\* addresses of the ordinals 0..R-1 and of no further ordinal (namenode: one
\* rpc and one http entry each; journalnode: one quorum entry each); the
\* address of (cluster, role, ordinal, namespace) is
\* <cluster>-<role>-<ordinal>.<cluster>-<role>.<namespace>.svc.cluster.local,
\* whatever the rest of the spec, and the addresses of a cluster are pairwise
\* distinct, across the roles too.
ReplicaAddress(name, role, k, ns) ==
  name \o "-" \o role \o "-" \o ToString(k) \o "." \o name \o "-" \o role
  \o "." \o ns \o ".svc.cluster.local"

C13_Identities ==
  \A i \in Inst :
    ConfigWritten(i) =>
      LET name == arg[i].metadata.name
          ns == arg[i].metadata.namespace[1]
          N == unwrap_or(arg[i].spec.namenode_replicas, 1)
          J == unwrap_or(arg[i].spec.journalnode_replicas, 1)
          xml == SiteXml(i)
          Nn(k) == ReplicaAddress(name, "namenode", k, ns)
          Jn(k) == ReplicaAddress(name, "journalnode", k, ns)
      IN /\ \A k \in 0..(N - 1) : Count(xml, Nn(k)) = 2
         /\ Count(xml, Nn(N)) = 0
         /\ \A k \in 0..(J - 1) : Count(xml, Jn(k)) = 1
         /\ Count(xml, Jn(J)) = 0
         /\ Cardinality({Nn(k) : k \in 0..(N - 1)} \cup {Jn(k) : k \in 0..(J - 1)})
              = N + J

C13_Witness ==
  \E i \in Inst :
    /\ ConfigWritten(i)
    /\ arg[i].spec.namenode_replicas = Some(3)
    /\ arg[i].spec.journalnode_replicas = Some(3)
    /\ Count(SiteXml(i), ReplicaAddress("hdfs1", "journalnode", 2, "ns")) = 1

\* the workload group of a role as the successful invocation upserted it
WorkloadGroup(i, role) ==
  store[<< "StatefulSet", arg[i].metadata.namespace,
           arg[i].metadata.name \o "-" \o role >>].body

AllUpserted(i) ==
  /\ IsHdfs(arg[i])
  /\ pc[i] = "returned"
  /\ Succeeded(i)
  /\ Len(calls[i]) = 7

\* C14: a role whose replica count is omitted gets one entry in the derived
\* configuration (one logical id and one address pair for the namenode, one
\* quorum entry for the journalnode) and a workload group with replica count
\* 1; a role whose count is given as 0 gets no entry and a workload group
\* with replica count 0.
C14_DefaultReplicas ==
  \A i \in Inst :
    AllUpserted(i) =>
      LET name == arg[i].metadata.name
          ns == arg[i].metadata.namespace[1]
          spec == arg[i].spec
          xml == SiteXml(i)
          Given(count) == IF count = None THEN 1 ELSE 0
      IN /\ spec.namenode_replicas \in {None, Some(0)} =>
              /\ Count(xml, "<name>dfs.namenode.rpc-address.")
                   = Given(spec.namenode_replicas)
              /\ Count(xml, "<name>dfs.namenode.http-address.")
                   = Given(spec.namenode_replicas)
              /\ Contains(xml, PropertyElement("dfs.ha.namenodes." \o name,
                     IF spec.namenode_replicas = None THEN "name-0" ELSE ""))
              /\ WorkloadGroup(i, "namenode").spec.replicas
                   = Some(Given(spec.namenode_replicas))
         /\ spec.journalnode_replicas \in {None, Some(0)} =>
              /\ Count(xml, ReplicaAddress(name, "journalnode", 0, ns))
                   = Given(spec.journalnode_replicas)
              /\ Count(xml, ReplicaAddress(name, "journalnode", 1, ns)) = 0
              /\ WorkloadGroup(i, "journalnode").spec.replicas
                   = Some(Given(spec.journalnode_replicas))
         /\ spec.datanode_replicas \in {None, Some(0)} =>
              WorkloadGroup(i, "datanode").spec.replicas
                = Some(Given(spec.datanode_replicas))

\* the written configuration holds, for each of the three roles, the
\* principal made of the role's short name, the host anchor and the realm
PrincipalsAnchoredAt(i, anchor) ==
  LET realm == unwrap_or(arg[i].spec.kerberos.realm, "LOCAL")
      Principal(role, short) ==
        PropertyElement("dfs." \o role \o ".kerberos.principal",
                        short \o "/" \o anchor \o "@" \o realm)
  IN /\ Contains(SiteXml(i), Principal("journalnode", "jn"))
     /\ Contains(SiteXml(i), Principal("namenode", "nn"))
     /\ Contains(SiteXml(i), Principal("datanode", "dn"))

\* C15 as stated: the principals of journalnode, namenode and datanode are
\* jn/, nn/ and dn/ followed by the address of namenode replica 0, "@" and
\* the realm, the realm being "LOCAL" when none is configured.
C15_AnchorFirstNamenode ==
  \A i \in Inst :
    ConfigWritten(i) =>
      PrincipalsAnchoredAt(i, ReplicaAddress(arg[i].metadata.name, "namenode", 0,
                                             arg[i].metadata.namespace[1]))

\* C15 as amended: the principals of journalnode, namenode and datanode are
\* jn/, nn/ and dn/ followed by the address shared by the namenodes,
\* <cluster>-namenode.<namespace>.svc.cluster.local, "@" and the realm, the
\* realm being "LOCAL" when none is configured.
C15_AnchorNamenodeService ==
  \A i \in Inst :
    ConfigWritten(i) =>
      PrincipalsAnchoredAt(i, arg[i].metadata.name \o "-namenode."
                              \o arg[i].metadata.namespace[1]
                              \o ".svc.cluster.local")

C15_Witness ==
  \E i \in Inst :
    /\ ConfigWritten(i)
    /\ arg[i].spec.kerberos.realm = None
    /\ Contains(SiteXml(i), "<value>dn/hdfs1-namenode.ns.svc.cluster.local@LOCAL</value>")

Krb5Conf(i) == store[ConfigMapKey(arg[i])].body.data["krb5.conf"]

\* the document opens with the [libdefaults] stanza, the [realms] stanza
\* follows it, each header occurs once and every opened brace is closed
KerberosStanzas(doc) ==
  /\ SubSeq(doc, 1, Len("[libdefaults]\n")) = "[libdefaults]\n"
  /\ Count(doc, "[libdefaults]\n") = 1
  /\ Count(doc, "[realms]\n") = 1
  /\ Count(doc, "{") = Count(doc, "}")

DefaultRealmLine(doc, kerberos) ==
  IF kerberos.realm = None
  THEN ~Contains(doc, "default_realm")
  ELSE Count(doc, "default_realm = " \o kerberos.realm[1] \o "\n") = 1

\* C16 as stated: for every setting of realm and kdc the written Kerberos
\* document has both stanzas and balanced braces, a default_realm line
\* exactly when a realm is set, and a kdc line exactly when a kdc is set.
C16_KdcLineIffKdc ==
  \A i \in Inst :
    ConfigWritten(i) =>
      LET doc == Krb5Conf(i)
          kerberos == arg[i].spec.kerberos
      IN /\ KerberosStanzas(doc)
         /\ DefaultRealmLine(doc, kerberos)
         /\ IF kerberos.kdc = None
            THEN ~Contains(doc, "kdc = ")
            ELSE Count(doc, "kdc = " \o kerberos.kdc[1] \o "\n") = 1

\* C16 as amended: the same, but the kdc line is present exactly when a kdc
\* and a realm are both set: it is written inside the realm's block.
C16_KdcLineIffRealmAndKdc ==
  \A i \in Inst :
    ConfigWritten(i) =>
      LET doc == Krb5Conf(i)
          kerberos == arg[i].spec.kerberos
      IN /\ KerberosStanzas(doc)
         /\ DefaultRealmLine(doc, kerberos)
         /\ IF kerberos.kdc = None \/ kerberos.realm = None
            THEN ~Contains(doc, "kdc = ")
            ELSE Count(doc, kerberos.realm[1] \o " = {\nkdc = "
                                \o kerberos.kdc[1] \o "\n}\n") = 1

C16_Witness ==
  \E i \in Inst :
    /\ ConfigWritten(i)
    /\ arg[i].spec.kerberos = [realm |-> None, kdc |-> Some("kdc.example.com")]
    /\ Krb5Conf(i) = "[libdefaults]\n[realms]\n"

CoreXml(i) == store[ConfigMapKey(arg[i])].body.data["core-site.xml"]

\* the pod template of a workload group has the keytab secret volume
KeytabVolume(group) ==
  \E n \in DOMAIN group.spec.template.spec.volumes :
    LET v == group.spec.template.spec.volumes[n]
    IN "secret" \in DOMAIN v /\ v.name = "kerberos"

\* a container of the pod template mounts the keytab volume
KeytabMount(group) ==
  \E n \in DOMAIN group.spec.template.spec.containers :
    LET c == group.spec.template.spec.containers[n]
    IN \E m \in DOMAIN c.volume_mounts : c.volume_mounts[m].name = "kerberos"

\* C17: the pod template of every role has the keytab secret volume and its
\* mount, and the written core configuration sets Kerberos authentication,
\* exactly when the spec configures a realm.
C17_KerberosIffRealm ==
  \A i \in Inst :
    AllUpserted(i) =>
      LET realm_set == arg[i].spec.kerberos.realm # None
      IN /\ \A role \in {"journalnode", "namenode", "datanode"} :
              /\ KeytabVolume(WorkloadGroup(i, role)) <=> realm_set
              /\ KeytabMount(WorkloadGroup(i, role)) <=> realm_set
         /\ Contains(CoreXml(i),
                      PropertyElement("hadoop.security.authentication", "kerberos"))
              <=> realm_set

\* C18: the body of every upsert of an invocation, of either reconciler,
\* has exactly one owner reference, which names the kind, name and uid of
\* the object being reconciled and marks it as controller, and has the
\* namespace of that object.
ParentName(obj) ==
  IF IsHdfs(obj) THEN obj.metadata.name ELSE obj.metadata.name[1]

C18_OwnerAndNamespace ==
  \A i \in Inst : \A n \in 1..Len(calls[i]) :
    LET meta == calls[i][n].request.body.metadata
    IN /\ Len(meta.owner_references) = 1
       /\ meta.owner_references[1].kind = arg[i].kind
       /\ meta.owner_references[1].api_version = arg[i].api_version
       /\ meta.owner_references[1].name = ParentName(arg[i])
       /\ meta.owner_references[1].uid = arg[i].metadata.uid
       /\ meta.owner_references[1].controller = Some(TRUE)
       /\ meta.namespace = arg[i].metadata.namespace
       /\ meta.namespace # None

C18_Witness ==
  \E i \in HdfsInst :
    /\ Len(calls[i]) = 7
    /\ \A n \in 1..7 :
         calls[i][n].request.body.metadata.owner_references[1].uid = "uid-1"

\* the replica count of a role after defaulting
RoleReplicas(hdfs, role) ==
  unwrap_or(CASE role = "namenode" -> hdfs.spec.namenode_replicas
              [] role = "datanode" -> hdfs.spec.datanode_replicas
              [] role = "journalnode" -> hdfs.spec.journalnode_replicas, 1)

\* the keys of the network service and the workload group of a role
RoleKeys(hdfs, role) ==
  { << kind, hdfs.metadata.namespace, hdfs.metadata.name \o "-" \o role >> :
      kind \in {"Service", "StatefulSet"} }

\* C19: an invocation issues no upsert of the network service or of the
\* workload group of a role whose replica count, after defaulting, is 0.
C19_NoUpsertForEmptyRole ==
  \A i \in Inst : IsHdfs(arg[i]) =>
    \A role \in {"journalnode", "namenode", "datanode"} :
      RoleReplicas(arg[i], role) = 0 =>
        Keys(calls[i]) \cap RoleKeys(arg[i], role) = {}

\* ---- reading a property-list document back, as an XML reader does

StartsWith(s, p, t) ==
  /\ p + Len(t) - 1 <= Len(s)
  /\ SubSeq(s, p, p + Len(t) - 1) = t

\* the position of the first "<" of s in lo..hi-1, hi when there is none
\* (the end of character data), found by halving the interval
RECURSIVE TextEnd(_, _, _)
TextEnd(s, lo, hi) ==
  IF hi <= lo THEN hi
  ELSE IF hi = lo + 1 THEN (IF SubSeq(s, lo, lo) = "<" THEN lo ELSE hi)
  ELSE LET mid == (lo + hi) \div 2
           l == TextEnd(s, lo, mid)
       IN IF l < mid THEN l ELSE TextEnd(s, mid, hi)

\* the entity references of character data and the characters they stand for
Entities == { << "&amp;", "&" >>, << "&lt;", "<" >>, << "&gt;", ">" >> }

EntityAt(s, p, e) ==
  { ent \in Entities : p + Len(ent[1]) <= e /\ StartsWith(s, p, ent[1]) }

\* position q of s lies inside an entity reference that starts before q
InEntity(s, lo, q, e) ==
  \E a \in { q - d : d \in 1..4 } :
    a >= lo /\ \E ent \in EntityAt(s, a, e) : q < a + Len(ent[1])

\* character data lo..e-1 of s is well-formed: every "&" starts an entity
WellFormedText(s, lo, e) ==
  \A q \in lo..(e - 1) :
    SubSeq(s, q, q) = "&" => EntityAt(s, q, e) # {}

\* the text that well-formed character data from..to-1 of s stands for
\* (lo and e are the bounds of the whole character data)
RECURSIVE Decode(_, _, _, _, _)
Decode(s, lo, e, from, to) ==
  IF to <= from THEN ""
  ELSE IF to = from + 1
       THEN IF SubSeq(s, from, from) = "&"
            THEN (CHOOSE ent \in EntityAt(s, from, e) : TRUE)[2]
            ELSE IF InEntity(s, lo, from, e) THEN ""
            ELSE SubSeq(s, from, from)
       ELSE LET mid == (from + to) \div 2
            IN Decode(s, lo, e, from, mid) \o Decode(s, lo, e, mid, to)

Unescape(s, lo, e) ==
  IF WellFormedText(s, lo, e) THEN Some(Decode(s, lo, e, lo, e)) ELSE None

\* the pairs of the property elements of s from position p up to the closing
\* tag of the document, None when s is not of that form
RECURSIVE ReadProperties(_, _)
ReadProperties(s, p) ==
  IF StartsWith(s, p, "</configuration>")
  THEN IF p + 15 = Len(s) THEN Some(<< >>) ELSE None
  ELSE IF ~ StartsWith(s, p, "<property><name>") THEN None
  ELSE LET k0 == p + 16
           k1 == TextEnd(s, k0, Len(s) + 1)
           v0 == k1 + 14
           v1 == TextEnd(s, v0, Len(s) + 1)
           k == Unescape(s, k0, k1)
           v == Unescape(s, v0, v1)
       IN IF \/ ~ StartsWith(s, k1, "</name><value>")
             \/ ~ StartsWith(s, v1, "</value></property>\n")
             \/ k = None
             \/ v = None
          THEN None
          ELSE LET rest == ReadProperties(s, v1 + 20)
               IN IF rest = None THEN None
                  ELSE Some(<< << k[1], v[1] >> >> \o rest[1])

ReadBack(doc) ==
  IF StartsWith(doc, 1, "<configuration>\n") THEN ReadProperties(doc, 17)
  ELSE None

\* C20: the property-list document written for a sequence of pairs is
\* well-formed, and read back it gives exactly the pairs of the input, one
\* per element and in the order of the input, also when a key or a value
\* holds "<", ">" or "&".
C20_ReadBack ==
  \A i \in Inst : ConfigWritten(i) =>
    /\ ReadBack(SiteXml(i))
         = Some(hdfs_site_config(arg[i], arg[i].metadata.namespace[1]))
    /\ ReadBack(CoreXml(i)) = Some(core_site_config(arg[i]))

\* the resources a reconciler manages for an object
ManagedKeys(obj) ==
  LET ns == obj.metadata.namespace
  IN IF IsHdfs(obj)
     THEN { << FixedOrder(obj.metadata.name)[n][1], ns,
               FixedOrder(obj.metadata.name)[n][2] >> : n \in 1..7 }
     ELSE { << "Service", ns, obj.metadata.name[1] \o "-global" >> }
          \cup { << kind, ns, obj.metadata.name[1] >> :
                   kind \in {"Service", "ConfigMap", "StatefulSet"} }

\* the calls of the running invocation of i that address the resource k
CallsFor(i, k) == { n \in 1..Len(calls[i]) : Key(calls[i][n].request) = k }

\* a reconciliation that has returned Ok has upserted every managed resource
\* of its object exactly once, with success, and asks for no requeue
SuccessIsComplete ==
  \A i \in Inst : Succeeded(i) =>
    /\ \A k \in ManagedKeys(arg[i]) :
         /\ Cardinality(CallsFor(i, k)) = 1
         /\ \A n \in CallsFor(i, k) : calls[i][n].status = "ok"
    /\ ret[i].val.requeue_after = None

\* a step that newly asks for a requeue is the error policy's answer to a
\* reconciliation that returned an error
RequeueByErrorPolicy ==
  \A i \in Inst :
    (action'[i] # action[i] /\ action'[i].requeue_after # None) =>
      /\ pc[i] = "returned"
      /\ Failed(i)
      /\ action'[i] = policy(objs[i], ret[i].error)

\* C21: reconcile returns Ok only when every managed resource of the object
\* has been upserted with success exactly once in that invocation; an Ok
\* result asks for no requeue; and a requeue is asked for only by
\* error_policy, after a reconciliation that returned an error.
C21_SuccessMeansAllUpserted ==
  [] SuccessIsComplete /\ [][RequeueByErrorPolicy]_vars

C21_Witness ==
  \E i \in Inst :
    /\ Succeeded(i)
    /\ Len(calls[i]) = Cardinality(ManagedKeys(arg[i]))
    /\ failures[i] > 0
    /\ action[i].requeue_after = Some(5)

\* a label selector matches a set of labels: every label it names is there
\* with the same value
Matches(selector, labels) ==
  \A f \in DOMAIN selector : f \in DOMAIN labels /\ labels[f] = selector[f]

\* the pod selector of a generated network service or workload group
Selector(body) ==
  IF body.kind = "Service" THEN body.spec.selector
  ELSE body.spec.selector.match_labels

\* the labels of the pods of a generated workload group
PodLabels(body) == body.spec.template.metadata.labels

\* the bodies of kind k that the running invocation of i has generated
Generated(i, k) ==
  { calls[i][n].request.body : n \in { m \in 1..Len(calls[i]) :
                                         calls[i][m].request.kind \in k } }

\* within one cluster a selector equals the pod labels of its own role and
\* matches the pods of no other role
SelectorsWithinCluster ==
  \A i \in HdfsInst :
    \A a \in Generated(i, {"Service", "StatefulSet"}) :
      \A b \in Generated(i, {"StatefulSet"}) :
        IF a.metadata.name = b.metadata.name
        THEN Selector(a) = PodLabels(b)
        ELSE ~ Matches(Selector(a), PodLabels(b))

\* no selector of one cluster matches the pods of another cluster of the
\* same namespace
SelectorsAcrossClusters ==
  \A i, j \in HdfsInst :
    (/\ i # j
     /\ arg[i].metadata.namespace = arg[j].metadata.namespace
     /\ arg[i].metadata.name # arg[j].metadata.name) =>
      \A a \in Generated(i, {"Service", "StatefulSet"}) :
        \A b \in Generated(j, {"StatefulSet"}) :
          ~ Matches(Selector(a), PodLabels(b))

\* C22: for two distinct HdfsCluster objects of one namespace, no pod
\* selector of a service or workload group generated for one matches the
\* pod labels of a workload group generated for the other; within one
\* cluster the service selector and the workload-group selector of a role
\* equal the labels of that role's pod template and match no other role's
\* pods.
C22_SelectorIsolation == SelectorsWithinCluster /\ SelectorsAcrossClusters

====
